---- MODULE Spec2Model ----
(***************************************************************************)
(* Minesweeper cog (bot/seasons/evergreen/minesweeper.py): the game store, *)
(* board generation, reveal with flood fill, flagging, win/loss detection  *)
(* and the coordinate converter.                                           *)
(*                                                                         *)
(* Cell values are the source's mixed str/int values encoded as integers:  *)
(* 0..8 are the numbers, the negative constants below stand for the        *)
(* strings "bomb", "hidden", "flag" and the placeholder "number".          *)
(* A grid g is indexed like the source: g[y][x], y the row, x the column.  *)
(* Characters of a coordinate token are their code points (ord).           *)
(* Probabilities and random() draws are in tenths: 2 stands for 0.2.       *)
(***************************************************************************)
EXTENDS Integers, Sequences, FiniteSets, TLC

VARIABLES games, dm_msg, last, args, result, heap, tasks

vars == <<games, dm_msg, last, args, result, heap, tasks>>

-----------------------------------------------------------------------------
(* Constants of the program *)

BOMB == -1
HIDDEN == -2
FLAG == -3
NUMBER == -4

Size == 10

Range == 0 .. (Size - 1)

MESSAGE_MAPPING ==
    [k \in FLAG .. 10 |->
        CASE k = 0 -> ":stop_button:"
          [] k = 1 -> ":one:"
          [] k = 2 -> ":two:"
          [] k = 3 -> ":three:"
          [] k = 4 -> ":four:"
          [] k = 5 -> ":five:"
          [] k = 6 -> ":six:"
          [] k = 7 -> ":seven:"
          [] k = 8 -> ":eight:"
          [] k = 9 -> ":nine:"
          [] k = 10 -> ":keycap_ten:"
          [] k = BOMB -> ":bomb:"
          [] k = HIDDEN -> ":grey_question:"
          [] k = FLAG -> ":triangular_flag_on_post:"]

-----------------------------------------------------------------------------
(* Bounds of the model *)

\* longest coordinate token given to the converter
MaxLen == 3

\* most coordinates named by one flag or reveal command
MaxCoords == 2

\* most steps (loop iterations and returns) one flood fill is run for
MaxSteps == 1024

\* characters a token is made of: ! 0 1 A a j k
Alphabet == {33, 48, 49, 65, 97, 106, 107}

\* player identities (ctx.author.id)
Players == {1, 2}

\* cells a flag command and a reveal command may name, as (x, y)
FlagCoords == {<<0, 0>>, <<1, 0>>}
RevealCoords == {<<0, 0>>, <<1, 0>>, <<3, 0>>}

\* the corner of the board whose cells draw high unless they are in the chosen
\* subset of BombCells; every cell outside the corner draws low
ClearCells == {<<x, y>> : x \in 0 .. 3, y \in 0 .. 1}
BombCells == {<<0, 0>>}

\* outcomes of random(), in tenths, of the low and of the high cells
LowDraws == {0, 2}
HighDraws == {5}

\* bomb_chance arguments of start, in tenths: 0.0, 0.2 (the default), 1.0
Chances == {0, 2, 10}

-----------------------------------------------------------------------------
(* CoordinateConverter.convert *)

\* how a call ended: the exception raised, or the value returned
ArgumentParsingError == [kind |-> "ArgumentParsingError", value |-> <<>>]
ValueError == [kind |-> "ValueError", value |-> <<>>]
Returned(value) == [kind |-> "returned", value |-> value]

\* str.lower on one character
lower(c) == IF c >= 65 /\ c <= 90 THEN c + 32 ELSE c

\* str.isdigit on one character
isdigit(c) == c >= 48 /\ c <= 57

RECURSIVE insert(_, _)
insert(s, c) ==
    IF s = <<>> THEN <<c>>
    ELSE IF c < Head(s) THEN <<c>> \o s
    ELSE <<Head(s)>> \o insert(Tail(s), c)

\* sorted(): the characters in ascending code point order
RECURSIVE sorted(_)
sorted(s) == IF s = <<>> THEN <<>> ELSE insert(sorted(Tail(s)), Head(s))

convert(token) ==
    IF ~(2 <= Len(token) /\ Len(token) <= 3) THEN ArgumentParsingError
    ELSE LET chars == sorted([i \in 1 .. Len(token) |-> lower(token[i])])
         IN  \* digit, letter = sorted(...): unpacking needs exactly two values
             IF Len(chars) # 2 THEN ValueError
             ELSE LET digit == chars[1]
                      letter == chars[2]
                  IN  IF ~isdigit(letter) THEN ArgumentParsingError
                      ELSE LET x == lower(letter) - 97
                           IN  \* int(digit) raises on a character that is no digit
                               IF ~isdigit(digit) THEN ValueError
                               ELSE LET y == (digit - 48) - 1
                                    IN  IF ~(0 <= x /\ x <= 9) \/ ~(0 <= y /\ y <= 9)
                                        THEN ArgumentParsingError
                                        ELSE Returned(<<x, y>>)

-----------------------------------------------------------------------------
(* Boards *)

\* get_neighbours without the diagonal neighbours
get_neighbours_orthogonal(x, y) ==
    LET all == << <<x - 1, y>>, <<x, y - 1>>, <<x, y>>, <<x, y + 1>>, <<x + 1, y>> >>
        inside(n) == n[1] # -1 /\ n[1] # 10 /\ n[2] # -1 /\ n[2] # 10
    IN  SelectSeq(all, inside)

\* get_neighbours: the cell itself included, in the order the generator yields
get_neighbours(x, y) ==
    LET all == << <<x - 1, y - 1>>, <<x - 1, y>>, <<x - 1, y + 1>>,
                  <<x, y - 1>>, <<x, y>>, <<x, y + 1>>,
                  <<x + 1, y - 1>>, <<x + 1, y>>, <<x + 1, y + 1>> >>
        inside(n) == n[1] # -1 /\ n[1] # 10 /\ n[2] # -1 /\ n[2] # 10
    IN  SelectSeq(all, inside)

\* get_neighbours of every cell, computed once
Neighbours == [x \in Range, y \in Range |-> get_neighbours(x, y)]

\* the inner loop of generate_board: the cells of row y from column x on
RECURSIVE count_cells(_, _, _)
count_cells(board, y, x) ==
    IF x = Size THEN board
    ELSE LET ns == Neighbours[x, y]
             bombs == Cardinality({k \in 1 .. Len(ns) : board[ns[k][2]][ns[k][1]] = BOMB})
         IN  IF board[y][x] = NUMBER
             THEN count_cells([board EXCEPT ![y][x] = bombs], y, x + 1)
             ELSE count_cells(board, y, x + 1)

\* the outer loop of generate_board: the rows from row y on
RECURSIVE count_rows(_, _)
count_rows(board, y) ==
    IF y = Size THEN board ELSE count_rows(count_cells(board, y, 0), y + 1)

\* generate_board; draws[y][x] is the outcome of random() for the cell
generate_board(bomb_chance, draws) ==
    count_rows([y \in Range |-> [x \in Range |->
                   IF draws[y][x] <= bomb_chance THEN BOMB ELSE NUMBER]], 0)

\* format_for_discord. The text of a message is kept as its parts, in order: the
\* header line, then per row its label and the emoji of its cells (the rows are
\* joined by newlines, the emoji of a row by nothing); prefix is what end_command
\* puts in front of it.
format_for_discord(board) ==
    LET header == ":stop_button:    :regional_indicator_a::regional_indicator_b::regional_indicator_c:"
                  \o ":regional_indicator_d::regional_indicator_e::regional_indicator_f::regional_indicator_g:"
                  \o ":regional_indicator_h::regional_indicator_i::regional_indicator_j:\n\n"
        new_row(row_number) ==
            <<MESSAGE_MAPPING[row_number + 1] \o "    ",
              [k \in 1 .. Size |-> MESSAGE_MAPPING[board[row_number][k - 1]]]>>
    IN  [prefix |-> "", header |-> header, rows |-> [k \in 1 .. Size |-> new_row(k - 1)]]

-----------------------------------------------------------------------------
(* Reveal *)

\* One activation of reveal_zeros: its cell and the position k of its for loop
\* in get_neighbours(x, y). The recursion is run on its call stack: stack is the
\* activations from the outermost to the current one, calls counts the calls made.
Frame(x, y, k) == [x |-> x, y |-> y, k |-> k]

\* reveal_zeros treating a flagged neighbour like a hidden one
reveal_zeros_step_through_flags(call, board) ==
    LET depth == Len(call.stack)
        top == call.stack[depth]
        ns == Neighbours[top.x, top.y]
    IN  IF top.k > Len(ns)
        THEN [call EXCEPT !.stack = SubSeq(call.stack, 1, depth - 1)]
        ELSE LET x_ == ns[top.k][1]
                 y_ == ns[top.k][2]
                 next == [call.stack EXCEPT ![depth].k = top.k + 1]
             IN  IF call.revealed[y_][x_] \notin {HIDDEN, FLAG}
                 THEN [call EXCEPT !.stack = next]
                 ELSE IF board[y_][x_] = 0
                 THEN [revealed |-> [call.revealed EXCEPT ![y_][x_] = board[y_][x_]],
                       stack |-> Append(next, Frame(x_, y_, 1)),
                       calls |-> call.calls + 1]
                 ELSE [revealed |-> [call.revealed EXCEPT ![y_][x_] = board[y_][x_]],
                       stack |-> next,
                       calls |-> call.calls]

\* reveal_zeros recursing into a hidden zero cell without revealing it first
reveal_zeros_step_unmarked(call, board) ==
    LET depth == Len(call.stack)
        top == call.stack[depth]
        ns == Neighbours[top.x, top.y]
    IN  IF top.k > Len(ns)
        THEN [call EXCEPT !.stack = SubSeq(call.stack, 1, depth - 1)]
        ELSE LET x_ == ns[top.k][1]
                 y_ == ns[top.k][2]
                 next == [call.stack EXCEPT ![depth].k = top.k + 1]
             IN  IF call.revealed[y_][x_] # HIDDEN
                 THEN [call EXCEPT !.stack = next]
                 ELSE IF board[y_][x_] = 0
                 THEN [revealed |-> call.revealed,
                       stack |-> Append(next, Frame(x_, y_, 1)),
                       calls |-> call.calls + 1]
                 ELSE [revealed |-> [call.revealed EXCEPT ![y_][x_] = board[y_][x_]],
                       stack |-> next,
                       calls |-> call.calls]

\* one step of the current activation: a loop iteration, or its return
reveal_zeros_step(call, board) ==
    LET depth == Len(call.stack)
        top == call.stack[depth]
        ns == Neighbours[top.x, top.y]
    IN  IF top.k > Len(ns)
        THEN [call EXCEPT !.stack = SubSeq(call.stack, 1, depth - 1)]
        ELSE LET x_ == ns[top.k][1]
                 y_ == ns[top.k][2]
                 next == [call.stack EXCEPT ![depth].k = top.k + 1]
             IN  IF call.revealed[y_][x_] # HIDDEN
                 THEN [call EXCEPT !.stack = next]
                 ELSE IF board[y_][x_] = 0
                 THEN [revealed |-> [call.revealed EXCEPT ![y_][x_] = board[y_][x_]],
                       stack |-> Append(next, Frame(x_, y_, 1)),
                       calls |-> call.calls + 1]
                 ELSE [revealed |-> [call.revealed EXCEPT ![y_][x_] = board[y_][x_]],
                       stack |-> next,
                       calls |-> call.calls]

\* at most n steps, stopping when the outermost activation has returned
RECURSIVE reveal_zeros_run(_, _, _)
reveal_zeros_run(call, board, n) ==
    IF call.stack = <<>> THEN call
    ELSE IF n <= 1 THEN reveal_zeros_step(call, board)
    ELSE reveal_zeros_run(reveal_zeros_run(call, board, n \div 2), board, n - (n \div 2))

reveal_zeros_call(revealed, board, x, y) ==
    reveal_zeros_run([revealed |-> revealed, stack |-> <<Frame(x, y, 1)>>, calls |-> 1],
                     board, MaxSteps)

reveal_zeros(revealed, board, x, y) == reveal_zeros_call(revealed, board, x, y).revealed

\* check_if_won looking for hidden cells only
check_if_won_hidden_only(revealed, board) ==
    ~ \E x \in Range, y \in Range :
        revealed[y][x] = HIDDEN /\ board[y][x] # BOMB

\* the condition of check_if_won
check_if_won(revealed, board) ==
    ~ \E x \in Range, y \in Range :
        revealed[y][x] \in {HIDDEN, FLAG} /\ board[y][x] # BOMB

\* reveal_one leaving a flagged cell alone
reveal_one_skips_flag(revealed, board, x, y) ==
    IF revealed[y][x] = FLAG
    THEN [revealed |-> revealed, ended |-> FALSE, outcome |-> "Continue"]
    ELSE LET shown == [revealed EXCEPT ![y][x] = board[y][x]]
         IN  IF board[y][x] = BOMB
             THEN [revealed |-> shown, ended |-> TRUE, outcome |-> "Lost"]
             ELSE LET filled == IF board[y][x] = 0
                                THEN reveal_zeros(shown, board, x, y)
                                ELSE shown
                  IN  IF check_if_won(filled, board)
                      THEN [revealed |-> filled, ended |-> TRUE, outcome |-> "Won"]
                      ELSE [revealed |-> filled, ended |-> FALSE, outcome |-> "Continue"]

\* reveal_one taking the flag off a flagged cell instead of revealing it
reveal_one_unflags(revealed, board, x, y) ==
    IF revealed[y][x] = FLAG
    THEN [revealed |-> [revealed EXCEPT ![y][x] = HIDDEN],
          ended |-> FALSE, outcome |-> "Continue"]
    ELSE LET shown == [revealed EXCEPT ![y][x] = board[y][x]]
         IN  IF board[y][x] = BOMB
             THEN [revealed |-> shown, ended |-> TRUE, outcome |-> "Lost"]
             ELSE LET filled == IF board[y][x] = 0
                                THEN reveal_zeros(shown, board, x, y)
                                ELSE shown
                  IN  IF check_if_won(filled, board)
                      THEN [revealed |-> filled, ended |-> TRUE, outcome |-> "Won"]
                      ELSE [revealed |-> filled, ended |-> FALSE, outcome |-> "Continue"]

\* reveal_one going on after a bomb as after a number
reveal_one_lost_continues(revealed, board, x, y) ==
    LET shown == [revealed EXCEPT ![y][x] = board[y][x]]
        filled == IF board[y][x] = 0 THEN reveal_zeros(shown, board, x, y) ELSE shown
    IN  IF check_if_won(filled, board)
        THEN [revealed |-> filled, ended |-> TRUE, outcome |-> "Won"]
        ELSE [revealed |-> filled, ended |-> FALSE, outcome |-> "Continue"]

\* reveal_one without the flood fill from a zero cell
reveal_one_no_fill(revealed, board, x, y) ==
    LET shown == [revealed EXCEPT ![y][x] = board[y][x]]
    IN  IF board[y][x] = BOMB
        THEN [revealed |-> shown, ended |-> TRUE, outcome |-> "Lost"]
        ELSE IF check_if_won(shown, board)
        THEN [revealed |-> shown, ended |-> TRUE, outcome |-> "Won"]
        ELSE [revealed |-> shown, ended |-> FALSE, outcome |-> "Continue"]

\* reveal_one: the revealed list after it, and what it returned and why
reveal_one(revealed, board, x, y) ==
    LET shown == [revealed EXCEPT ![y][x] = board[y][x]]
    IN  IF board[y][x] = BOMB
        THEN [revealed |-> shown, ended |-> TRUE, outcome |-> "Lost"]
        ELSE LET filled == IF board[y][x] = 0
                           THEN reveal_zeros(shown, board, x, y)
                           ELSE shown
             IN  IF check_if_won(filled, board)
                 THEN [revealed |-> filled, ended |-> TRUE, outcome |-> "Won"]
                 ELSE [revealed |-> filled, ended |-> FALSE, outcome |-> "Continue"]

\* the for loop of reveal_command without its break
RECURSIVE reveal_loop_no_break(_, _, _, _)
reveal_loop_no_break(revealed, board, coordinates, k) ==
    IF k > Len(coordinates)
    THEN [revealed |-> revealed, ended |-> FALSE, outcome |-> "Continue", applied |-> k - 1]
    ELSE LET one == reveal_one(revealed, board, coordinates[k][1], coordinates[k][2])
             rest == reveal_loop_no_break(one.revealed, board, coordinates, k + 1)
         IN  IF one.ended
             THEN [revealed |-> rest.revealed, ended |-> TRUE,
                   outcome |-> one.outcome, applied |-> rest.applied]
             ELSE rest

\* the for loop of reveal_command from the k-th coordinate on; applied is the
\* number of coordinates reveal_one was called for
RECURSIVE reveal_loop(_, _, _, _)
reveal_loop(revealed, board, coordinates, k) ==
    IF k > Len(coordinates)
    THEN [revealed |-> revealed, ended |-> FALSE, outcome |-> "Continue", applied |-> k - 1]
    ELSE LET one == reveal_one(revealed, board, coordinates[k][1], coordinates[k][2])
         IN  IF one.ended
             THEN [revealed |-> one.revealed, ended |-> TRUE,
                   outcome |-> one.outcome, applied |-> k]
             ELSE reveal_loop(one.revealed, board, coordinates, k + 1)

\* the loop of flag_command without its test that the cell is hidden
RECURSIVE flag_loop_any(_, _, _)
flag_loop_any(board, coordinates, k) ==
    IF k > Len(coordinates) THEN board
    ELSE flag_loop_any([board EXCEPT ![coordinates[k][2]][coordinates[k][1]] = FLAG],
                       coordinates, k + 1)

\* the loop of flag_command taking the flag off a cell that is flagged
RECURSIVE flag_loop_toggle(_, _, _)
flag_loop_toggle(board, coordinates, k) ==
    IF k > Len(coordinates) THEN board
    ELSE LET x == coordinates[k][1]
             y == coordinates[k][2]
         IN  IF board[y][x] = HIDDEN
             THEN flag_loop_toggle([board EXCEPT ![y][x] = FLAG], coordinates, k + 1)
             ELSE IF board[y][x] = FLAG
             THEN flag_loop_toggle([board EXCEPT ![y][x] = HIDDEN], coordinates, k + 1)
             ELSE flag_loop_toggle(board, coordinates, k + 1)

\* the loop of flag_command flagging every cell that is not flagged yet
RECURSIVE flag_loop_unless_flagged(_, _, _)
flag_loop_unless_flagged(board, coordinates, k) ==
    IF k > Len(coordinates) THEN board
    ELSE LET x == coordinates[k][1]
             y == coordinates[k][2]
         IN  IF board[y][x] # FLAG
             THEN flag_loop_unless_flagged([board EXCEPT ![y][x] = FLAG], coordinates, k + 1)
             ELSE flag_loop_unless_flagged(board, coordinates, k + 1)

\* the for loop of flag_command from the k-th coordinate on
RECURSIVE flag_loop(_, _, _)
flag_loop(board, coordinates, k) ==
    IF k > Len(coordinates) THEN board
    ELSE LET x == coordinates[k][1]
             y == coordinates[k][2]
         IN  IF board[y][x] = HIDDEN
             THEN flag_loop([board EXCEPT ![y][x] = FLAG], coordinates, k + 1)
             ELSE flag_loop(board, coordinates, k + 1)

-----------------------------------------------------------------------------
(* The game store and the commands *)

Game(board, revealed) == [board |-> board, revealed |-> revealed]

NoGames == [p \in {} |-> 0]

\* self.games[player] = game
Put(store, player, game) ==
    [p \in DOMAIN store \cup {player} |-> IF p = player THEN game ELSE store[p]]

\* del self.games[player]
Del(store, player) == [p \in DOMAIN store \ {player} |-> store[p]]

NoMessage == [prefix |-> "", header |-> "", rows |-> <<>>]
NoArgs == <<>>
NoResult == [kind |-> "none", value |-> <<>>]

NoGrid == <<>>

\* the commands that may be in progress at once, by the task that runs each
Tasks == {1, 2}

\* the Game objects that the store or a task refers to, by identity: the list
\* made as board, the list made as revealed, whether the attribute revealed has
\* been set to the board list (game.revealed = game.board), and the text of the
\* message dm_msg
NoHeap == [g \in {} |-> 0]

\* a task that runs no command: its command and player, the place it is
\* suspended at (pc), the Game object the handler looked up (game) and the one
\* update_boards looked up (ub_game), what follows update_boards (then), the
\* text being sent, and how the command it ran last ended (outcome)
IdleTask ==
    [op |-> "none", pc |-> "idle", player |-> 0, game |-> 0, ub_game |-> 0,
     then |-> "none", content |-> NoMessage, outcome |-> "none"]

NoTasks == [t \in Tasks |-> IdleTask]

\* the last command: who gave it, what it was given and how it ended; games is the
\* store as the command found it, revealed the list the command worked on as it
\* left it, applied the number of coordinates reveal_one was called for
Last(op, player, outcome, bomb_chance, coordinates, applied, revealed) ==
    [op |-> op, player |-> player, outcome |-> outcome, bomb_chance |-> bomb_chance,
     coordinates |-> coordinates, applied |-> applied, revealed |-> revealed,
     games |-> games]

NoCommand ==
    [op |-> "none", player |-> 0, outcome |-> "none", bomb_chance |-> -1,
     coordinates |-> <<>>, applied |-> 0, revealed |-> NoGrid, games |-> NoGames]

\* the random() outcomes of one start: the cells of low_cells low, the others high
Draws(low_cells, low, high) ==
    [y \in Range |-> [x \in Range |-> IF <<x, y>> \in low_cells THEN low ELSE high]]

LowCellSets == {((Range \X Range) \ ClearCells) \cup cells : cells \in SUBSET BombCells}

DrawChoices ==
    {Draws(low_cells, low, high) :
        low_cells \in LowCellSets, low \in LowDraws, high \in HighDraws}

\* generate_board for every start of the model, computed once
GeneratedBoards ==
    [bomb_chance \in Chances, draws \in DrawChoices |-> generate_board(bomb_chance, draws)]

CoordinateLists(cells) == UNION {[1 .. n -> cells] : n \in 0 .. MaxCoords}

\* start_command without its check that the player is already playing
start_command_unchecked(player, bomb_chance, draws) ==
    /\ LET board == GeneratedBoards[bomb_chance, draws]
           revealed_board == [y \in Range |-> [x \in Range |-> HIDDEN]]
       IN  /\ dm_msg' = [dm_msg EXCEPT ![player] = format_for_discord(revealed_board)]
           /\ games' = Put(games, player, Game(board, revealed_board))
           /\ last' = Last("start", player, "Started", bomb_chance, <<>>, 0, NoGrid)
    /\ UNCHANGED <<args, result, heap, tasks>>

start_command(player, bomb_chance, draws) ==
    /\ IF player \in DOMAIN games
       THEN /\ last' = Last("start", player, "GameAlreadyActive", bomb_chance, <<>>, 0, NoGrid)
            /\ UNCHANGED <<games, dm_msg>>
       ELSE LET board == GeneratedBoards[bomb_chance, draws]
                revealed_board == [y \in Range |-> [x \in Range |-> HIDDEN]]
            IN  /\ dm_msg' = [dm_msg EXCEPT ![player] = format_for_discord(revealed_board)]
                /\ games' = Put(games, player, Game(board, revealed_board))
                /\ last' = Last("start", player, "Started", bomb_chance, <<>>, 0, NoGrid)
    /\ UNCHANGED <<args, result, heap, tasks>>

flag_command(player, coordinates) ==
    /\ IF player \notin DOMAIN games
       THEN /\ last' = Last("flag", player, "KeyError", -1, coordinates, 0, NoGrid)
            /\ UNCHANGED <<games, dm_msg>>
       ELSE LET board == flag_loop(games[player].revealed, coordinates, 1)
            IN  /\ games' = [games EXCEPT ![player].revealed = board]
                \* update_boards
                /\ dm_msg' = [dm_msg EXCEPT ![player] = format_for_discord(board)]
                /\ last' = Last("flag", player, "Flagged", -1, coordinates, 0, board)
    /\ UNCHANGED <<args, result, heap, tasks>>

reveal_command(player, coordinates) ==
    /\ IF player \notin DOMAIN games
       THEN /\ last' = Last("reveal", player, "KeyError", -1, coordinates, 0, NoGrid)
            /\ UNCHANGED <<games, dm_msg>>
       ELSE LET game == games[player]
                loop == reveal_loop(game.revealed, game.board, coordinates, 1)
            IN  /\ IF loop.ended
                   THEN \* lost / won: game.revealed = game.board; update_boards; del
                        /\ dm_msg' = [dm_msg EXCEPT ![player] = format_for_discord(game.board)]
                        /\ games' = Del(games, player)
                   ELSE /\ dm_msg' = [dm_msg EXCEPT ![player] = format_for_discord(loop.revealed)]
                        /\ games' = [games EXCEPT ![player].revealed = loop.revealed]
                /\ last' = Last("reveal", player, loop.outcome, -1, coordinates,
                                loop.applied, loop.revealed)
    /\ UNCHANGED <<args, result, heap, tasks>>

\* end_command looking the game up with a default instead of failing
end_command_default(player) ==
    /\ IF player \notin DOMAIN games
       THEN /\ last' = Last("end", player, "Ended", -1, <<>>, 0, NoGrid)
            /\ UNCHANGED <<games, dm_msg>>
       ELSE LET game == [games[player] EXCEPT !.revealed = games[player].board]
                content == format_for_discord(game.revealed)
                new_msg == [content EXCEPT !.prefix = ":no_entry: Game canceled :no_entry:\n"]
            IN  /\ dm_msg' = [dm_msg EXCEPT ![player] = new_msg]
                /\ games' = Del(games, player)
                /\ last' = Last("end", player, "Ended", -1, <<>>, 0, game.revealed)
    /\ UNCHANGED <<args, result, heap, tasks>>

\* end_command without its del of the record
end_command_keeps_record(player) ==
    /\ IF player \notin DOMAIN games
       THEN /\ last' = Last("end", player, "KeyError", -1, <<>>, 0, NoGrid)
            /\ UNCHANGED <<games, dm_msg>>
       ELSE LET game == [games[player] EXCEPT !.revealed = games[player].board]
                content == format_for_discord(game.revealed)
                new_msg == [content EXCEPT !.prefix = ":no_entry: Game canceled :no_entry:\n"]
            IN  /\ dm_msg' = [dm_msg EXCEPT ![player] = new_msg]
                /\ games' = [games EXCEPT ![player] = game]
                /\ last' = Last("end", player, "Ended", -1, <<>>, 0, game.revealed)
    /\ UNCHANGED <<args, result, heap, tasks>>

end_command(player) ==
    /\ IF player \notin DOMAIN games
       THEN /\ last' = Last("end", player, "KeyError", -1, <<>>, 0, NoGrid)
            /\ UNCHANGED <<games, dm_msg>>
       ELSE LET game == [games[player] EXCEPT !.revealed = games[player].board]
                \* update_boards, then the edit of the message it sent
                content == format_for_discord(game.revealed)
                new_msg == [content EXCEPT !.prefix = ":no_entry: Game canceled :no_entry:\n"]
            IN  /\ dm_msg' = [dm_msg EXCEPT ![player] = new_msg]
                /\ games' = Del(games, player)
                /\ last' = Last("end", player, "Ended", -1, <<>>, 0, game.revealed)
    /\ UNCHANGED <<args, result, heap, tasks>>

Init ==
    /\ games = NoGames
    /\ dm_msg = [p \in Players |-> NoMessage]
    /\ last = NoCommand
    /\ args = NoArgs
    /\ result = NoResult
    /\ heap = NoHeap
    /\ tasks = NoTasks

\* one command of one of the players
Command(players, chances, draw_choices, flag_lists, reveal_lists) ==
    \/ \E player \in players, bomb_chance \in chances, draws \in draw_choices :
          start_command(player, bomb_chance, draws)
    \/ \E player \in players, coordinates \in flag_lists :
          flag_command(player, coordinates)
    \/ \E player \in players, coordinates \in reveal_lists :
          reveal_command(player, coordinates)
    \/ \E player \in players : end_command(player)

\* the commands of one player
Next ==
    Command({1}, Chances, DrawChoices,
            CoordinateLists(FlagCoords), CoordinateLists(RevealCoords))

Spec == Init /\ [][Next]_vars

\* the commands of two players, each naming one cell, the games started with the
\* default bomb_chance
NextStore ==
    Command(Players, {2}, {draws \in DrawChoices : draws[9][9] = 2},
            {<< <<0, 0>> >>}, {<< <<0, 0>> >>, << <<1, 0>> >>})

SpecStore == Init /\ [][NextStore]_vars

-----------------------------------------------------------------------------
(* The converter alone, applied to every token over the alphabet *)

Tokens == UNION {[1 .. n -> Alphabet] : n \in 0 .. MaxLen}

InitConvert ==
    /\ games = NoGames
    /\ dm_msg = [p \in Players |-> NoMessage]
    /\ last = NoCommand
    /\ args \in Tokens
    /\ result = NoResult
    /\ heap = NoHeap
    /\ tasks = NoTasks

Convert ==
    /\ result = NoResult
    /\ result' = convert(args)
    /\ UNCHANGED <<games, dm_msg, last, args, heap, tasks>>

SpecConvert == InitConvert /\ [][Convert]_vars

-----------------------------------------------------------------------------
(* generate_board alone, applied to every bomb_chance and to draws that are low
   on a subset of GenerateCells, or everywhere but on such a subset *)

GenerateCells == {<<0, 0>>, <<1, 0>>, <<1, 1>>, <<5, 5>>, <<9, 8>>, <<9, 9>>}

GenerateDraws ==
    {Draws(low_cells, low, high) :
        low_cells \in {cells : cells \in SUBSET GenerateCells}
                          \cup {(Range \X Range) \ cells : cells \in SUBSET GenerateCells},
        low \in LowDraws, high \in HighDraws}

InitGenerate ==
    /\ games = NoGames
    /\ dm_msg = [p \in Players |-> NoMessage]
    /\ last = NoCommand
    /\ args \in [bomb_chance : Chances, draws : GenerateDraws]
    /\ result = NoResult
    /\ heap = NoHeap
    /\ tasks = NoTasks

Generate ==
    /\ result = NoResult
    /\ result' = Returned(generate_board(args.bomb_chance, args.draws))
    /\ UNCHANGED <<games, dm_msg, last, args, heap, tasks>>

SpecGenerate == InitGenerate /\ [][Generate]_vars

-----------------------------------------------------------------------------
(* reveal_zeros alone, as reveal_one calls it: on a zero cell it has just revealed,
   for boards with bombs on a subset of FillBombs and grids that are hidden but
   for flags on a subset of FillFlags *)

FillBombs == {<<5, 5>>, <<0, 9>>, <<2, 2>>}
FillFlags == {<<1, 1>>, <<4, 4>>, <<0, 1>>}
FillStarts == {<<0, 0>>, <<9, 9>>, <<7, 3>>}

FillBoards == {generate_board(2, Draws(cells, 2, 5)) : cells \in SUBSET FillBombs}

FillGrids ==
    {[y \in Range |-> [x \in Range |-> IF <<x, y>> \in cells THEN FLAG ELSE HIDDEN]] :
        cells \in SUBSET FillFlags}

InitFill ==
    /\ games = NoGames
    /\ dm_msg = [p \in Players |-> NoMessage]
    /\ last = NoCommand
    /\ args \in {a \in [board : FillBoards, revealed : FillGrids, cell : FillStarts] :
                    a.board[a.cell[2]][a.cell[1]] = 0}
    /\ result = NoResult
    /\ heap = NoHeap
    /\ tasks = NoTasks

\* revealed[y][x] = board[y][x] of reveal_one, then its call of reveal_zeros
Fill ==
    /\ result = NoResult
    /\ LET x == args.cell[1]
           y == args.cell[2]
           shown == [args.revealed EXCEPT ![y][x] = args.board[y][x]]
       IN  result' = Returned(reveal_zeros_call(shown, args.board, x, y))
    /\ UNCHANGED <<games, dm_msg, last, args, heap, tasks>>

SpecFill == InitFill /\ [][Fill]_vars

-----------------------------------------------------------------------------
(* The commands of one player as the event loop runs them: every command is a
   task, a task runs until it awaits a message send, edit or delete, and while
   it is suspended there any other task may run. In this specification games
   maps the player to the identity of its Game object in heap, so that a task
   keeps the object it looked up when the entry is deleted or replaced. The
   games are started in a direct message (no chat_msg), and every send, edit
   and delete succeeds. Consecutive awaits with nothing between them are one
   suspension. *)

AsyncDraws == {draws \in DrawChoices : draws[0][0] = 2 /\ draws[9][9] = 2}
AsyncFlagLists == {<< <<1, 0>> >>}
AsyncRevealLists == {<< <<0, 0>> >>, << <<1, 0>> >>}

Object(board, revealed) ==
    [board |-> board, revealed |-> revealed, aliased |-> FALSE, dm_msg |-> NoMessage]

\* the identity of a new object: one that no object referred to has
NewObject == CHOOSE g \in 1 .. (Cardinality(DOMAIN heap) + 1) : g \notin DOMAIN heap

\* the objects that the store or a task still refers to; the others are freed
Referred(objects, store, ts) ==
    LET kept == {store[p] : p \in DOMAIN store}
                    \cup {ts[t].game : t \in Tasks} \cup {ts[t].ub_game : t \in Tasks}
    IN  [g \in DOMAIN objects \cap kept |-> objects[g]]

\* the list game.revealed refers to
game_revealed(objects, g) ==
    IF objects[g].aliased THEN objects[g].board ELSE objects[g].revealed

\* the writes of a handler to the list game.revealed refers to. (When that is the
\* board list the handler's revealed and board are one list; grid is then what the
\* handler computed from two equal lists, which is the same as long as it writes
\* no cell that its test for "hidden" excludes.)
assign_revealed(objects, g, grid) ==
    IF objects[g].aliased
    THEN [objects EXCEPT ![g].board = grid]
    ELSE [objects EXCEPT ![g].revealed = grid]

\* the task has returned from its handler, or left it by an exception
Finished(outcome) == [IdleTask EXCEPT !.outcome = outcome]

Started(op, player, pc, g, ub_game, then, outcome) ==
    [IdleTask EXCEPT !.op = op, !.player = player, !.pc = pc, !.game = g,
                     !.ub_game = ub_game, !.then = then, !.outcome = outcome]

\* start_command up to its first await
start_entry(t, player, bomb_chance, draws) ==
    /\ tasks[t].pc = "idle"
    /\ IF player \in DOMAIN games
       THEN /\ tasks' = [tasks EXCEPT ![t] =
                            Started("start", player, "rejected_send", 0, 0, "none", "none")]
            /\ UNCHANGED heap
       ELSE LET board == GeneratedBoards[bomb_chance, draws]
                revealed_board == [y \in Range |-> [x \in Range |-> HIDDEN]]
                g == NewObject
            IN  /\ heap' = [h \in DOMAIN heap \cup {g} |->
                               IF h = g THEN Object(board, revealed_board) ELSE heap[h]]
                /\ tasks' = [tasks EXCEPT ![t] =
                                [Started("start", player, "start_send", g, 0, "none", "none")
                                     EXCEPT !.content = format_for_discord(revealed_board)]]
    /\ UNCHANGED <<games, dm_msg, last, args, result>>

\* start_command after the messages of its rejection
start_rejected(t) ==
    /\ tasks[t].pc = "rejected_send"
    /\ tasks' = [tasks EXCEPT ![t] = Finished("GameAlreadyActive")]
    /\ UNCHANGED <<games, dm_msg, last, args, result, heap>>

\* start_command after its sends: self.games[ctx.author.id] = Game(...)
start_store(t) ==
    /\ tasks[t].pc = "start_send"
    /\ games' = Put(games, tasks[t].player, tasks[t].game)
    /\ tasks' = [tasks EXCEPT ![t] = Finished("Started")]
    /\ heap' = Referred([heap EXCEPT ![tasks[t].game].dm_msg = tasks[t].content],
                        games', tasks')
    /\ UNCHANGED <<dm_msg, last, args, result>>

\* flag_command up to the first await of update_boards
flag_entry(t, player, coordinates) ==
    /\ tasks[t].pc = "idle"
    /\ IF player \notin DOMAIN games
       THEN /\ tasks' = [tasks EXCEPT ![t] = Finished("KeyError")]
            /\ UNCHANGED heap
       ELSE LET g == games[player]
                board == flag_loop(game_revealed(heap, g), coordinates, 1)
            IN  /\ heap' = assign_revealed(heap, g, board)
                /\ tasks' = [tasks EXCEPT ![t] =
                                Started("flag", player, "ub_delete", g, g, "return", "Flagged")]
    /\ UNCHANGED <<games, dm_msg, last, args, result>>

\* reveal_command up to its first await: that of lost or won if a coordinate ends
\* the game, that of update_boards otherwise
reveal_entry(t, player, coordinates) ==
    /\ tasks[t].pc = "idle"
    /\ IF player \notin DOMAIN games
       THEN /\ tasks' = [tasks EXCEPT ![t] = Finished("KeyError")]
            /\ UNCHANGED heap
       ELSE LET g == games[player]
                loop == reveal_loop(game_revealed(heap, g), heap[g].board, coordinates, 1)
                written == assign_revealed(heap, g, loop.revealed)
            IN  IF loop.ended
                THEN \* lost / won: game.revealed = game.board, then the send
                     /\ heap' = [written EXCEPT ![g].aliased = TRUE]
                     /\ tasks' = [tasks EXCEPT ![t] =
                                     Started("reveal", player, "over_send", g, 0, "del",
                                             loop.outcome)]
                ELSE /\ heap' = written
                     /\ tasks' = [tasks EXCEPT ![t] =
                                     Started("reveal", player, "ub_delete", g, g, "return",
                                             "Continue")]
    /\ UNCHANGED <<games, dm_msg, last, args, result>>

\* reveal_command after the send of lost or won: update_boards looks the game up
over_sent(t) ==
    /\ tasks[t].pc = "over_send"
    /\ IF tasks[t].player \notin DOMAIN games
       THEN tasks' = [tasks EXCEPT ![t] = Finished("KeyError")]
       ELSE tasks' = [tasks EXCEPT ![t].pc = "ub_delete",
                                   ![t].ub_game = games[tasks[t].player]]
    /\ heap' = Referred(heap, games, tasks')
    /\ UNCHANGED <<games, dm_msg, last, args, result>>

\* end_command up to the first await of update_boards
end_entry(t, player) ==
    /\ tasks[t].pc = "idle"
    /\ IF player \notin DOMAIN games
       THEN /\ tasks' = [tasks EXCEPT ![t] = Finished("KeyError")]
            /\ UNCHANGED heap
       ELSE LET g == games[player]
            IN  /\ heap' = [heap EXCEPT ![g].aliased = TRUE]
                /\ tasks' = [tasks EXCEPT ![t] =
                                Started("end", player, "ub_delete", g, g, "end", "Ended")]
    /\ UNCHANGED <<games, dm_msg, last, args, result>>

\* update_boards after game.dm_msg.delete(): the text of game.revealed is made
\* and sent
ub_deleted(t) ==
    /\ tasks[t].pc = "ub_delete"
    /\ tasks' = [tasks EXCEPT ![t].pc = "ub_send",
                              ![t].content =
                                  format_for_discord(game_revealed(heap, tasks[t].ub_game))]
    /\ UNCHANGED <<games, dm_msg, last, args, result, heap>>

\* update_boards after its send: game.dm_msg is the message sent; then what
\* follows in the handler up to its next await or its end
ub_sent(t) ==
    /\ tasks[t].pc = "ub_send"
    /\ LET task == tasks[t]
           sent == [heap EXCEPT ![task.ub_game].dm_msg = task.content]
       IN  CASE task.then = "return" ->
                  /\ tasks' = [tasks EXCEPT ![t] = Finished(task.outcome)]
                  /\ UNCHANGED games
                  /\ heap' = Referred(sent, games', tasks')
             [] task.then = "del" ->
                  \* del self.games[ctx.author.id] of reveal_command
                  /\ IF task.player \in DOMAIN games
                     THEN /\ games' = Del(games, task.player)
                          /\ tasks' = [tasks EXCEPT ![t] = Finished(task.outcome)]
                     ELSE /\ tasks' = [tasks EXCEPT ![t] = Finished("KeyError")]
                          /\ UNCHANGED games
                  /\ heap' = Referred(sent, games', tasks')
             [] task.then = "end" ->
                  \* new_msg of end_command, then game.dm_msg.edit
                  /\ tasks' = [tasks EXCEPT
                                  ![t].pc = "end_edit",
                                  ![t].ub_game = 0,
                                  ![t].content =
                                      [sent[task.game].dm_msg EXCEPT
                                          !.prefix = ":no_entry: Game canceled :no_entry:\n"]]
                  /\ UNCHANGED games
                  /\ heap' = Referred(sent, games', tasks')
    /\ UNCHANGED <<dm_msg, last, args, result>>

\* end_command after the edit of its message: del self.games[ctx.author.id]
end_edited(t) ==
    /\ tasks[t].pc = "end_edit"
    /\ IF tasks[t].player \in DOMAIN games
       THEN /\ games' = Del(games, tasks[t].player)
            /\ tasks' = [tasks EXCEPT ![t] = Finished("Ended")]
       ELSE /\ tasks' = [tasks EXCEPT ![t] = Finished("KeyError")]
            /\ UNCHANGED games
    /\ heap' = Referred([heap EXCEPT ![tasks[t].game].dm_msg = tasks[t].content],
                        games', tasks')
    /\ UNCHANGED <<dm_msg, last, args, result>>

NextAsync ==
    \/ \E t \in Tasks, draws \in AsyncDraws : start_entry(t, 1, 2, draws)
    \/ \E t \in Tasks : start_rejected(t)
    \/ \E t \in Tasks : start_store(t)
    \/ \E t \in Tasks, coordinates \in AsyncFlagLists : flag_entry(t, 1, coordinates)
    \/ \E t \in Tasks, coordinates \in AsyncRevealLists : reveal_entry(t, 1, coordinates)
    \/ \E t \in Tasks : over_sent(t)
    \/ \E t \in Tasks : end_entry(t, 1)
    \/ \E t \in Tasks : ub_deleted(t)
    \/ \E t \in Tasks : ub_sent(t)
    \/ \E t \in Tasks : end_edited(t)

SpecAsync == Init /\ [][NextAsync]_vars

-----------------------------------------------------------------------------
(* Properties *)

\* the player of the last command had a record when the command was given
HadGame == last.player \in DOMAIN last.games

\* that record as the command found it
Before == last.games[last.player]

Cells == Range \X Range

\* the cells of a grid that are not HIDDEN
Shown(grid) == {c \in Cells : grid[c[2]][c[1]] # HIDDEN}

\* C1: a start for a player who already has a record is rejected: no board is
\* generated, and the record's board and revealed grid (and the rest of the
\* store) are exactly what they were before the call
C1_StartRejected ==
    (last.op = "start" /\ HadGame) =>
        /\ last.outcome = "GameAlreadyActive"
        /\ DOMAIN games = DOMAIN last.games
        /\ games[last.player].board = Before.board
        /\ games[last.player].revealed = Before.revealed
        /\ \A p \in DOMAIN games : games[p] = last.games[p]

\* a rejected start of a player whose game has revealed cells, while the other
\* player has a game too
C1_Witness ==
    /\ last.op = "start"
    /\ last.outcome = "GameAlreadyActive"
    /\ DOMAIN games = Players
    /\ Shown(games[last.player].revealed) # {}

\* C10: flag, reveal and end of a player without a record fail with the lookup
\* failure before any mutation: the store and every other player's record are
\* unchanged and no record is created for the player
C10_NoActiveGame ==
    (last.op \in {"flag", "reveal", "end"} /\ ~HadGame) =>
        /\ last.outcome = "KeyError"
        /\ last.player \notin DOMAIN games
        /\ DOMAIN games = DOMAIN last.games
        /\ \A p \in DOMAIN games : games[p] = last.games[p]

\* a failed end of a player without a record while the other player's game has
\* revealed cells
C10_Witness ==
    /\ last.op = "end"
    /\ last.outcome = "KeyError"
    /\ \E p \in DOMAIN games : p # last.player /\ Shown(games[p].revealed) # {}

\* the value of a grid at a cell (x, y)
At(grid, c) == grid[c[2]][c[1]]

\* 8-directional adjacency on the board, a cell counted adjacent to itself
IsAdjacent(c, d) == c[1] - d[1] \in -1 .. 1 /\ c[2] - d[2] \in -1 .. 1

\* the first n coordinates of the last command, as a set
Named(n) == {last.coordinates[i] : i \in 1 .. n}

\* the non-bomb cells of a board that a grid shows Hidden or Flagged
Unrevealed(grid, board) ==
    {c \in Cells : At(grid, c) \in {HIDDEN, FLAG} /\ At(board, c) # BOMB}

\* C2: the reveal of a Bomb cell yields Lost whether the cell was Hidden or
\* Flagged: the grid rendered is the full board and the record is removed. (A
\* coordinate of the command is revealed unless an earlier one ended the game.)
C2_BombLost ==
    (last.op = "reveal" /\ HadGame) =>
        \A i \in 1 .. Len(last.coordinates) :
            At(Before.board, last.coordinates[i]) = BOMB =>
                /\ last.applied <= i
                /\ last.applied = i =>
                    /\ last.outcome = "Lost"
                    /\ last.player \notin DOMAIN games
                    /\ \A c \in Cells :
                          dm_msg[last.player].rows[c[2] + 1][2][c[1] + 1]
                              = MESSAGE_MAPPING[At(Before.board, c)]

\* a game with a number revealed is lost by the reveal of a flagged bomb
C2_Witness ==
    /\ last.op = "reveal"
    /\ HadGame
    /\ last.outcome = "Lost"
    /\ Len(last.coordinates) = 1
    /\ At(Before.revealed, last.coordinates[1]) = FLAG
    /\ \E c \in Cells : At(Before.revealed, c) \in 1 .. 8
    /\ dm_msg[last.player].rows[1][2][1] = ":bomb:"

\* C3: the reveal of a non-bomb cell yields Won exactly if after it and its flood
\* fill no non-bomb cell is Hidden or Flagged, and Continue otherwise, the record
\* staying in the store; the reveal of the last such cell yields Won
C3_WonIff ==
    (/\ last.op = "reveal"
     /\ HadGame
     /\ last.applied >= 1
     /\ At(Before.board, last.coordinates[last.applied]) # BOMB) =>
        /\ last.outcome = "Won" <=> Unrevealed(last.revealed, Before.board) = {}
        /\ last.outcome = "Won" => last.player \notin DOMAIN games
        /\ last.outcome # "Won" =>
              /\ last.outcome = "Continue"
              /\ last.applied = Len(last.coordinates)
              /\ last.player \in DOMAIN games
              /\ games[last.player].revealed = last.revealed
        /\ (/\ last.applied = 1
            /\ Unrevealed(Before.revealed, Before.board) = {last.coordinates[1]})
              => last.outcome = "Won"

\* a game is won by the reveal of its last unrevealed non-bomb cell, a flagged one
C3_Witness ==
    /\ last.op = "reveal"
    /\ HadGame
    /\ last.outcome = "Won"
    /\ Len(last.coordinates) = 1
    /\ At(Before.revealed, last.coordinates[1]) = FLAG
    /\ Unrevealed(Before.revealed, Before.board) = {last.coordinates[1]}
    /\ last.player \notin DOMAIN games

\* the zero-value cells connected to the cells of chain by zero-value cells that
\* the grid shows Hidden; frontier is the part of chain not yet looked around
RECURSIVE ZeroChain(_, _, _, _)
ZeroChain(chain, frontier, grid, board) ==
    LET more == {n \in Cells \ chain :
                    /\ At(board, n) = 0
                    /\ At(grid, n) = HIDDEN
                    /\ \E c \in frontier : IsAdjacent(n, c)}
    IN  IF more = {} THEN chain ELSE ZeroChain(chain \cup more, more, grid, board)

\* what the reveal of cell c is to make of a grid: c shows its value, and if that
\* is zero so does every Hidden cell adjacent to a cell of the chain
Revealed(grid, board, c) ==
    LET chain == IF At(board, c) = 0 THEN ZeroChain({c}, {c}, grid, board) ELSE {}
        filled == {n \in Cells : At(grid, n) = HIDDEN /\ \E z \in chain : IsAdjacent(n, z)}
    IN  [y \in Range |-> [x \in Range |->
            IF <<x, y>> = c \/ <<x, y>> \in filled THEN board[y][x] ELSE grid[y][x]]]

RECURSIVE RevealedAll(_, _, _, _)
RevealedAll(grid, board, coordinates, n) ==
    IF n = 0 THEN grid
    ELSE Revealed(RevealedAll(grid, board, coordinates, n - 1), board, coordinates[n])

\* C4: the flood fill started by the reveal of a zero-value cell reveals exactly
\* the Hidden cells adjacent to a cell of the chain of zero-value cells connected
\* to it through cells that were Hidden, does not continue from a non-zero cell,
\* and changes no Flagged cell
C4_FloodFill ==
    (last.op = "reveal" /\ HadGame) =>
        /\ last.revealed = RevealedAll(Before.revealed, Before.board,
                                       last.coordinates, last.applied)
        /\ \A c \in Cells \ Named(last.applied) :
              At(Before.revealed, c) = FLAG => At(last.revealed, c) = FLAG

\* the reveal of a zero-value cell beside a flagged zero-value cell: its non-zero
\* neighbours are revealed, the flag stays, and a zero-value cell behind the flag
\* stays Hidden
C4_Witness ==
    /\ last.op = "reveal"
    /\ HadGame
    /\ last.outcome = "Continue"
    /\ Len(last.coordinates) = 1
    /\ At(Before.board, last.coordinates[1]) = 0
    /\ \E f \in Cells, h \in Cells, n \in Cells :
          /\ f # last.coordinates[1]
          /\ IsAdjacent(f, last.coordinates[1])
          /\ At(Before.board, f) = 0
          /\ At(Before.revealed, f) = FLAG
          /\ At(games[last.player].revealed, f) = FLAG
          /\ IsAdjacent(h, f)
          /\ At(Before.board, h) = 0
          /\ At(games[last.player].revealed, h) = HIDDEN
          /\ At(Before.board, n) \in 1 .. 8
          /\ At(Before.revealed, n) = HIDDEN
          /\ At(games[last.player].revealed, n) = At(Before.board, n)

\* C5: flag sets each named cell to Flagged exactly if it is Hidden, leaves a
\* named cell that is Flagged or Revealed and every cell not named as it is,
\* never changes the board and never ends the game
C5_Flag ==
    (last.op = "flag" /\ HadGame) =>
        /\ last.outcome = "Flagged"
        /\ last.player \in DOMAIN games
        /\ games[last.player].board = Before.board
        /\ \A c \in Cells :
              At(games[last.player].revealed, c) =
                  IF c \in Named(Len(last.coordinates)) /\ At(Before.revealed, c) = HIDDEN
                  THEN FLAG
                  ELSE At(Before.revealed, c)

\* a flag command naming a revealed cell, which stays revealed, and a hidden
\* cell, which is flagged
C5_Witness ==
    /\ last.op = "flag"
    /\ HadGame
    /\ \E c \in Named(Len(last.coordinates)), d \in Named(Len(last.coordinates)) :
          /\ At(Before.revealed, c) \in 0 .. 8
          /\ At(games[last.player].revealed, c) = At(Before.revealed, c)
          /\ At(Before.revealed, d) = HIDDEN
          /\ At(games[last.player].revealed, d) = FLAG

\* the column a letter a-j of either case names, -1 for any other character
Column(c) ==
    IF c \in 97 .. 106 THEN c - 97 ELSE IF c \in 65 .. 74 THEN c - 65 ELSE -1

\* the row number 1-10 a string of digits denotes, 0 for any other string
Row(str) ==
    IF Len(str) = 1 /\ str[1] \in 49 .. 57 THEN str[1] - 48
    ELSE IF str = <<49, 48>> THEN 10
    ELSE 0

\* the cell a token of one column letter and one row number, in either order,
\* names; <<-1, -1>> for any other token
Parsed(token) ==
    IF Len(token) \notin 2 .. 3 THEN <<-1, -1>>
    ELSE IF Column(token[1]) # -1 /\ Row(Tail(token)) # 0
    THEN <<Column(token[1]), Row(Tail(token)) - 1>>
    ELSE IF Column(token[Len(token)]) # -1 /\ Row(SubSeq(token, 1, Len(token) - 1)) # 0
    THEN <<Column(token[Len(token)]), Row(SubSeq(token, 1, Len(token) - 1)) - 1>>
    ELSE <<-1, -1>>

\* C6: the converter accepts every token of one column letter a-j (either case)
\* and one row number 1-10, in either order, and returns (column index, row
\* number minus 1)
C6_ConvertAccepts ==
    (result # NoResult /\ Parsed(args) # <<-1, -1>>) => result = Returned(Parsed(args))

\* C7: the converter fails with ArgumentParsingError, and with no other error,
\* for every token that is not one column letter a-j and one row number 1-10
C7_ConvertRejects ==
    (result # NoResult /\ Parsed(args) = <<-1, -1>>) => result = ArgumentParsingError

\* C8: a game started with bomb_chance 0.0 has no bomb on its board whatever the
\* draws, and in a game without bombs the single command reveal (0,0) on the
\* all-Hidden grid reveals the whole grid and yields Won
C8_NoBombsThenWon ==
    /\ (last.op = "start" /\ last.outcome = "Started" /\ last.bomb_chance = 0) =>
          \A c \in Cells : At(games[last.player].board, c) # BOMB
    /\ (/\ last.op = "reveal"
        /\ HadGame
        /\ last.coordinates = << <<0, 0>> >>
        /\ \A c \in Cells : At(Before.board, c) # BOMB /\ At(Before.revealed, c) = HIDDEN) =>
          /\ last.outcome = "Won"
          /\ last.revealed = Before.board

\* the cell is drawn as a bomb by the call of generate_board in args
DrawnBomb(c) == At(args.draws, c) <= args.bomb_chance

\* C9: every non-bomb cell of a generated board holds the number of bombs among
\* its up to 8 neighbours (8-directional, clipped at the edges), a number in
\* 0..8, and every cell drawn as a bomb is a bomb
C9_BombCounts ==
    result.kind = "returned" =>
        \A c \in Cells :
            IF DrawnBomb(c)
            THEN At(result.value, c) = BOMB
            ELSE /\ At(result.value, c) =
                        Cardinality({n \in Cells : n # c /\ IsAdjacent(n, c) /\ DrawnBomb(n)})
                 /\ At(result.value, c) \in 0 .. 8

\* a board with a cell of 8 bomb neighbours, a corner cell of 3 and an edge cell of 5
C9_Witness ==
    /\ result.kind = "returned"
    /\ At(result.value, <<5, 5>>) = 8
    /\ At(result.value, <<0, 0>>) = 3
    /\ At(result.value, <<9, 8>>) = 5
    /\ At(result.value, <<9, 9>>) = BOMB

\* the outcomes that end a game
Terminal == {"Won", "Lost", "Ended"}

\* the text of a message is the rendering of the grid
Renders(message, grid) ==
    \A c \in Cells : message.rows[c[2] + 1][2][c[1] + 1] = MESSAGE_MAPPING[At(grid, c)]

AllHidden == [y \in Range |-> [x \in Range |-> HIDDEN]]

\* C11: end on a player with a record, whatever its revealed grid, renders the
\* full board and removes the record; after a command that ended Won, Lost or
\* Ended the player has no record, and a start of the same player that follows is
\* accepted and stores a fresh game, its revealed grid all Hidden
C11_EndThenStart ==
    [][/\ (last'.op = "end" /\ last'.player \in DOMAIN games) =>
            /\ last'.outcome = "Ended"
            /\ last'.revealed = games[last'.player].board
            /\ Renders(dm_msg'[last'.player], games[last'.player].board)
            /\ last'.player \notin DOMAIN games'
       /\ last'.outcome \in Terminal => last'.player \notin DOMAIN games'
       /\ (/\ last.outcome \in Terminal
           /\ last'.op = "start"
           /\ last'.player = last.player) =>
            /\ last'.outcome = "Started"
            /\ last'.player \in DOMAIN games'
            /\ games'[last'.player].revealed = AllHidden
            /\ \E draws \in DrawChoices :
                  games'[last'.player].board = GeneratedBoards[last'.bomb_chance, draws]
            /\ Renders(dm_msg'[last'.player], AllHidden)]_vars

\* an end of a game that shows a flag, a revealed number and hidden cells: the
\* message is the full board under the cancel line and the record is gone
C11_Witness ==
    /\ last.op = "end"
    /\ HadGame
    /\ last.outcome = "Ended"
    /\ \E c \in Cells, d \in Cells, e \in Cells :
          /\ At(Before.revealed, c) = FLAG
          /\ At(Before.revealed, d) \in 1 .. 8
          /\ At(Before.revealed, e) = HIDDEN /\ At(Before.board, e) = BOMB
    /\ dm_msg[last.player].prefix = ":no_entry: Game canceled :no_entry:\n"
    /\ Renders(dm_msg[last.player], Before.board)
    /\ last.player \notin DOMAIN games

\* the last command was a flag or a reveal on a game that is still in the store
StillActive ==
    /\ last.op \in {"flag", "reveal"}
    /\ HadGame
    /\ last.player \in DOMAIN games

\* the grid of that game after the command
After == games[last.player].revealed

\* the cells the last command named and acted on
Acted ==
    IF last.op = "reveal" THEN Named(last.applied) ELSE Named(Len(last.coordinates))

\* C12 as stated: in an active game a Flagged cell stays Flagged after every flag
\* and reveal command, and a cell only goes from Hidden to Flagged or from Hidden
\* to Revealed
C12_FlaggedStays ==
    StillActive =>
        \A c \in Cells :
            /\ At(Before.revealed, c) = FLAG => At(After, c) = FLAG
            /\ At(After, c) # At(Before.revealed, c) =>
                  /\ At(Before.revealed, c) = HIDDEN
                  /\ At(After, c) \in {FLAG, At(Before.board, c)}

\* C12 amended: in an active game a Flagged cell stays Flagged after every flag
\* command and after every reveal command that does not name it; a cell only goes
\* from Hidden to Flagged, from Hidden to Revealed or, named by a reveal, from
\* Flagged to Revealed
C12_FlaggedStaysUnlessNamed ==
    StillActive =>
        \A c \in Cells :
            /\ (/\ At(Before.revealed, c) = FLAG
                /\ ~(last.op = "reveal" /\ c \in Acted)) => At(After, c) = FLAG
            /\ At(After, c) # At(Before.revealed, c) =>
                  \/ /\ At(Before.revealed, c) = HIDDEN
                     /\ At(After, c) \in {FLAG, At(Before.board, c)}
                  \/ /\ At(Before.revealed, c) = FLAG
                     /\ last.op = "reveal"
                     /\ c \in Acted
                     /\ At(After, c) = At(Before.board, c)

\* a reveal names one of two flagged cells: it shows its number, the other keeps
\* its flag, and the game goes on
C12_Witness ==
    /\ StillActive
    /\ last.op = "reveal"
    /\ \E c \in Acted, d \in Cells \ Acted :
          /\ At(Before.revealed, c) = FLAG
          /\ At(After, c) \in 0 .. 8
          /\ At(Before.revealed, d) = FLAG
          /\ At(After, d) = FLAG

\* C13: in an active game a Revealed cell never becomes Hidden or Flagged again
\* (it keeps the value it shows), and a Flagged cell never becomes Hidden
C13_NeverDowngraded ==
    StillActive =>
        \A c \in Cells :
            /\ At(Before.revealed, c) \notin {HIDDEN, FLAG} =>
                  At(After, c) = At(Before.revealed, c)
            /\ At(Before.revealed, c) = FLAG => At(After, c) # HIDDEN

\* a flag command names a revealed cell and a flagged cell of a game that also
\* has hidden cells: both stay as they are
C13_Witness ==
    /\ StillActive
    /\ last.op = "flag"
    /\ \E c \in Acted, d \in Acted :
          /\ At(Before.revealed, c) \in 0 .. 8
          /\ At(After, c) = At(Before.revealed, c)
          /\ At(Before.revealed, d) = FLAG
          /\ At(After, d) = FLAG
    /\ \E e \in Cells : At(After, e) = HIDDEN

\* the reveal of the n-th coordinate of the last command, after the ones before
\* it, ends the game: it names a bomb, or leaves no non-bomb cell unrevealed
EndsAt(n) ==
    \/ At(Before.board, last.coordinates[n]) = BOMB
    \/ Unrevealed(RevealedAll(Before.revealed, Before.board, last.coordinates, n),
                  Before.board) = {}

\* C14: a reveal command applies its coordinates in the order given and stops at
\* the first whose outcome is Lost or Won, the coordinates after it not applied;
\* if none is terminal all are applied and the record stays
C14_StopsAtFirstTerminal ==
    (last.op = "reveal" /\ HadGame) =>
        /\ last.applied \in 0 .. Len(last.coordinates)
        /\ \A n \in 1 .. (last.applied - 1) : ~EndsAt(n)
        /\ last.revealed = RevealedAll(Before.revealed, Before.board,
                                       last.coordinates, last.applied)
        /\ IF last.applied >= 1 /\ EndsAt(last.applied)
           THEN /\ last.outcome \in {"Lost", "Won"}
                /\ last.outcome = "Lost" <=>
                      At(Before.board, last.coordinates[last.applied]) = BOMB
                /\ last.player \notin DOMAIN games
           ELSE /\ last.outcome = "Continue"
                /\ last.applied = Len(last.coordinates)
                /\ last.player \in DOMAIN games
                /\ After = last.revealed

\* a reveal of two coordinates is lost at the first, and the second, a hidden
\* cell, is still hidden in the list the command worked on
C14_Witness ==
    /\ last.op = "reveal"
    /\ HadGame
    /\ Len(last.coordinates) = 2
    /\ last.applied = 1
    /\ last.outcome = "Lost"
    /\ last.coordinates[2] # last.coordinates[1]
    /\ At(Before.revealed, last.coordinates[2]) = HIDDEN
    /\ At(last.revealed, last.coordinates[2]) = HIDDEN

\* C18: in every record of the store no cell of the revealed grid shows Bomb, and
\* a cell that is neither Hidden nor Flagged shows the board's value; the flood
\* fill of a reveal (the cells it changes that the command did not name) reveals
\* no Bomb
C18_ActiveShowsBoard ==
    /\ \A p \in DOMAIN games, c \in Cells :
          /\ At(games[p].revealed, c) # BOMB
          /\ At(games[p].revealed, c) \notin {HIDDEN, FLAG} =>
                At(games[p].revealed, c) = At(games[p].board, c)
    /\ (last.op = "reveal" /\ HadGame) =>
          \A c \in Cells \ Acted :
              At(last.revealed, c) # At(Before.revealed, c) => At(Before.board, c) # BOMB

\* an active game after a reveal whose flood fill went up to the numbers beside
\* the bombs, which stay hidden, and left a flag in place
C18_Witness ==
    /\ StillActive
    /\ last.op = "reveal"
    /\ \E z \in Cells \ Acted : At(Before.revealed, z) = HIDDEN /\ At(After, z) = 0
    /\ \E n \in Cells \ Acted :
          /\ At(Before.revealed, n) = HIDDEN
          /\ At(After, n) \in 1 .. 8
          /\ \E h \in Cells :
                IsAdjacent(h, n) /\ At(After, h) = HIDDEN /\ At(Before.board, h) = BOMB
    /\ \E f \in Cells : At(After, f) = FLAG

\* C19: after a reveal command on a game that stays active no cell that shows the
\* number 0 has a Hidden cell among its 8-directional edge-clipped neighbours
C19_ZeroHasNoHiddenNeighbour ==
    (StillActive /\ last.op = "reveal") =>
        \A c \in Cells :
            At(After, c) = 0 =>
                \A n \in Cells : IsAdjacent(n, c) => At(After, n) \in (0 .. 8) \cup {FLAG}

\* a reveal names a flagged zero cell whose neighbour was hidden: the cell shows
\* 0, the neighbour is revealed, and a flagged neighbour of a zero keeps its flag
C19_Witness ==
    /\ StillActive
    /\ last.op = "reveal"
    /\ \E c \in Acted :
          /\ At(Before.revealed, c) = FLAG
          /\ At(After, c) = 0
          /\ \E n \in Cells :
                IsAdjacent(n, c) /\ At(Before.revealed, n) = HIDDEN /\ At(After, n) \in 0 .. 8
          /\ \E f \in Cells : IsAdjacent(f, c) /\ At(After, f) = FLAG

\* C20: the flood fill terminates: the outermost activation of reveal_zeros has
\* returned; every recursive call was made on a cell just changed from Hidden to
\* its value 0, one call per such cell, every cell the fill changed was Hidden
\* and shows its board value, and the calls are at most the number of cells
C20_FillTerminates ==
    result.kind = "returned" =>
        LET call == result.value
            start == [args.revealed EXCEPT ![args.cell[2]][args.cell[1]] = 0]
            changed == {c \in Cells : At(call.revealed, c) # At(start, c)}
        IN  /\ call.stack = <<>>
            /\ \A c \in changed :
                  At(start, c) = HIDDEN /\ At(call.revealed, c) = At(args.board, c)
            /\ call.calls - 1 = Cardinality({c \in changed : At(call.revealed, c) = 0})
            /\ call.calls <= Size * Size

\* the fill of a board without bombs from a corner of the all-hidden grid: one
\* call per cell
C20_Witness ==
    /\ result.kind = "returned"
    /\ result.value.stack = <<>>
    /\ result.value.calls = Size * Size
    /\ \A c \in Cells : At(result.value.revealed, c) = 0

\* the task is running a command
Running(t) == tasks[t].pc # "idle"

\* the step is the beginning of a command of task t
Begins(t) == ~Running(t) /\ tasks'[t] # tasks[t]

\* the step is the end of a command of task t
Ends(t) == Running(t) /\ tasks'[t].pc = "idle"

\* C15: every command is an atomic step with respect to the player's record: no
\* command of the player begins while another is suspended; a command that has
\* found the record never fails on a record already removed; and a terminal
\* reveal or an end removes the record it was operating on
C15_CommandsAtomic ==
    [][\A t \in Tasks :
          /\ Begins(t) => \A u \in Tasks \ {t} : ~Running(u)
          /\ (Ends(t) /\ tasks[t].game # 0) => tasks'[t].outcome # "KeyError"
          /\ (/\ Ends(t)
              /\ tasks[t].op \in {"reveal", "end"}
              /\ DOMAIN games' # DOMAIN games) => games[tasks[t].player] = tasks[t].game]_vars

\* C16: the board of a game is never changed after start has made it: it is a
\* board of generate_board when the object is created, and no step of a flag,
\* reveal or end command changes a cell of it, the steps included that run while
\* game.revealed is the board list itself
C16_BoardNeverChanged ==
    [][/\ \A g \in DOMAIN heap' \ DOMAIN heap :
             \E draws \in AsyncDraws : heap'[g].board = GeneratedBoards[2, draws]
       /\ \A g \in DOMAIN heap \cap DOMAIN heap' : heap'[g].board = heap[g].board]_vars

\* a flag command has run its loop on the game of an end command that is
\* suspended, whose revealed is the board list, naming a cell that is no bomb
C16_Witness ==
    \E t \in Tasks, u \in Tasks :
        /\ tasks[t].op = "flag"
        /\ tasks[t].pc = "ub_delete"
        /\ tasks[u].op = "end"
        /\ Running(u)
        /\ tasks[u].game = tasks[t].game
        /\ heap[tasks[t].game].aliased
        /\ \E coordinates \in AsyncFlagLists :
              At(heap[tasks[t].game].board, coordinates[1]) \in 0 .. 8

\* C17: of two start commands that overlap at most one creates a record: an
\* entry of the store is never replaced, and it is removed only by the end of a
\* reveal or an end command
C17_StartNeverReplaces ==
    [][\A p \in DOMAIN games :
          /\ p \in DOMAIN games' => games'[p] = games[p]
          /\ p \notin DOMAIN games' =>
                \E t \in Tasks : Ends(t) /\ tasks[t].op \in {"reveal", "end"}]_vars

====
